---- MODULE Spec2Model ----
(***************************************************************************)
(* Model of packages/cfexp: the Valid | Invalid | Failure result algebra,  *)
(* CaptureSet merging, mergeResults, chain, union and the memoized         *)
(* traversal engine (src/packages/cfexp/src/index.ts), with the            *)
(* arrayCollection consumer of src/packages/cfexp/src/pojo.ts.             *)
(***************************************************************************)
EXTENDS FiniteSets, Integers, Sequences, TLC

VARIABLES
    pool, lastBuild,                            \* CaptureSet construction
    mrResults, mrProducers, mrMapped, mrOut, acOut,   \* mergeResults
    stageA, stageB, stageC, chInput, chOut,     \* chain
    alts, unInput, unPos, firstInvalid, firstFailure, unInvoked, unOut, \* union
    productionContext, cache, stack, callNo, allocated, execCount,
    produced, diverged, served, reentered, foreign, crossRead, crossWrite
                                                \* transform

csVars == <<pool, lastBuild>>
mrVars == <<mrResults, mrProducers, mrMapped, mrOut, acOut>>
chVars == <<stageA, stageB, stageC, chInput, chOut>>
unVars == <<alts, unInput, unPos, firstInvalid, firstFailure, unInvoked, unOut>>
trVars == <<productionContext, cache, stack, callNo, allocated, execCount,
            produced, diverged, served, reentered, foreign, crossRead,
            crossWrite>>
vars == <<csVars, mrVars, chVars, unVars, trVars>>

----------------------------------------------------------------------------
(* Bounds of the model *)

MaxPool == 4
MaxResults == 2
MaxAlts == 3
MaxCalls == 2
MaxDepth == 2
MaxInstances == 2

----------------------------------------------------------------------------
(* CaptureKey, Capture, CaptureSet *)

Keys == {"k1", "k2"}

\* Capture instances {input, output}, compared by reference identity.
Captures == {1, 2}

\* What Map.get returns for a key that is not in the map.
NoCapture == 0

\* The fields of a CaptureSet just after its field initialisers ran.
EmptyCaptureSet ==
    [definedKeys |-> [k \in Keys |-> NoCapture], overloadedKeys |-> {}]

add(cs, key, io) ==
    IF key \in cs.overloadedKeys THEN cs
    ELSE IF cs.definedKeys[key] # NoCapture
    THEN [definedKeys |-> [cs.definedKeys EXCEPT ![key] = NoCapture],
          overloadedKeys |-> cs.overloadedKeys \cup {key}]
    ELSE [cs EXCEPT !.definedKeys[key] = io]

get(cs, key) == cs.definedKeys[key]

\* Inner loop of the constructor over definedKeys.entries(); add touches only
\* its own key, so the iteration order of the keys does not matter.
RECURSIVE AddEntries(_, _, _)
AddEntries(cs, child, keys) ==
    IF keys = {} THEN cs
    ELSE LET key == CHOOSE k \in keys : TRUE
             nxt == IF child.definedKeys[key] # NoCapture
                    THEN add(cs, key, child.definedKeys[key])
                    ELSE cs
         IN  AddEntries(nxt, child, keys \ {key})

\* One iteration of the constructor's outer loop: the child's overloaded
\* keys are copied first, then its defined keys are added.
MergeChild(cs, child) ==
    AddEntries([cs EXCEPT !.overloadedKeys = @ \cup child.overloadedKeys],
               child, Keys)

RECURSIVE FoldChildren(_, _)
FoldChildren(cs, captureSets) ==
    IF captureSets = <<>> THEN cs
    ELSE FoldChildren(MergeChild(cs, Head(captureSets)), Tail(captureSets))

\* new CaptureSet(captureSets)
NewCaptureSet(captureSets) == FoldChildren(EmptyCaptureSet, captureSets)

\* Array.prototype.concat.apply([], arr.map(fn)) for an already mapped array.
RECURSIVE flatMap(_)
flatMap(arrs) ==
    IF arrs = <<>> THEN <<>> ELSE Head(arrs) \o flatMap(Tail(arrs))

\* The value of a variable or field that was never assigned.
undefined == [undefined |-> TRUE]

\* The outcome of throwing `new Error(...)`.
Threw == [threw |-> TRUE]

Returned(v) == [threw |-> FALSE, val |-> v]

RECURSIVE crossProductCaptures(_)
crossProductCaptures(captures) ==
    IF Len(captures) = 0 THEN Threw
    ELSE IF Len(captures) = 1 THEN Returned(captures[1])
    ELSE LET foos == Head(captures)
             bars == crossProductCaptures(Tail(captures)).val
         IN  IF Len(foos) = 0 THEN Returned(bars)
             ELSE Returned(flatMap(
                    [i \in 1..Len(foos) |->
                        [j \in 1..Len(bars) |->
                            NewCaptureSet(<<foos[i], bars[j]>>)]]))

----------------------------------------------------------------------------
(* Result algebra *)

Values == {0, 1}

\* An optional `string | string[]` argument: left out, a string, or an array.
Omitted == [tag |-> "omitted"]
Str(s) == [tag |-> "string", v |-> s]
Arr(a) == [tag |-> "array", v |-> a]

\* `typeof x === 'string' ? [x] : x`, after the parameter default applied.
toArray(arg, default) ==
    IF arg.tag = "omitted" THEN default
    ELSE IF arg.tag = "string" THEN <<arg.v>>
    ELSE arg.v

\* The default `captures = [new CaptureSet([])]`.
DefaultCaptures == <<NewCaptureSet(<<>>)>>

\* class Valid has no errors field, class Failure no value and no captures
\* field: a record lacks the fields its class leaves undefined.
valid(value, warnings, captures) ==
    [kind |-> "Valid", value |-> value,
     warnings |-> toArray(warnings, <<>>),
     captures |-> toArray(captures, DefaultCaptures)]

invalid(value, errors, warnings, captures) ==
    [kind |-> "Invalid", value |-> value,
     errors |-> toArray(errors, <<>>),
     warnings |-> toArray(warnings, <<>>),
     captures |-> toArray(captures, DefaultCaptures)]

failure(errors, warnings) ==
    [kind |-> "Failure",
     errors |-> toArray(errors, <<>>),
     warnings |-> toArray(warnings, <<>>)]

isValid(x) == x.kind = "Valid"
isInvalid(x) == x.kind = "Invalid"
isFailure(x) == x.kind = "Failure"

\* `result.errors || []`
errorsOf(result) == IF "errors" \in DOMAIN result THEN result.errors ELSE <<>>

\* bind with a slip: a failing step is returned as it is, so the errors and
\* warnings collected before it are lost.
bindLosesEarlier(self, binding) ==
    IF isFailure(self) THEN self
    ELSE LET result == binding[self.value]
             warnings == self.warnings \o result.warnings
             errors == errorsOf(self) \o errorsOf(result)
         IN  IF isFailure(result) THEN result
             ELSE LET captures ==
                        crossProductCaptures(<<self.captures, result.captures>>).val
                  IN  IF Len(errors) # 0
                      THEN invalid(result.value, Arr(errors), Arr(warnings),
                                   Arr(captures))
                      ELSE valid(result.value, Arr(warnings), Arr(captures))

\* self.bind(binding); binding is a function of the value, applied only on
\* the paths where the code calls it.
bind(self, binding) ==
    IF isFailure(self) THEN self
    ELSE LET result == binding[self.value]
             warnings == self.warnings \o result.warnings
             errors == errorsOf(self) \o errorsOf(result)
         IN  IF isFailure(result) THEN failure(Arr(errors), Arr(warnings))
             ELSE LET captures ==
                        crossProductCaptures(<<self.captures, result.captures>>).val
                  IN  IF Len(errors) # 0
                      THEN invalid(result.value, Arr(errors), Arr(warnings),
                                   Arr(captures))
                      ELSE valid(result.value, Arr(warnings), Arr(captures))

\* result.get(key)
resultGet(result, key) ==
    IF isFailure(result) THEN <<>>
    ELSE [i \in 1..Len(result.captures) |-> get(result.captures[i], key)]

\* MultiMap.add with a slip: every call opens a new entry, so results of one
\* producer are no longer grouped.
multiMapAddAlwaysNew(map, key, values) ==
    Append(map, [key |-> key, values |-> values])

\* MultiMap.add(key, values) on a map kept as its entries in insertion order.
multiMapAdd(map, key, values) ==
    IF \E i \in 1..Len(map) : map[i].key = key
    THEN [i \in 1..Len(map) |->
            IF map[i].key = key
            THEN [map[i] EXCEPT !.values = @ \o values]
            ELSE map[i]]
    ELSE Append(map, [key |-> key, values |-> values])

\* The index of the first Failure of results, Len(results) + 1 without one.
RECURSIVE firstFailureAt(_, _)
firstFailureAt(results, i) ==
    IF i > Len(results) THEN i
    ELSE IF isFailure(results[i]) THEN i
    ELSE firstFailureAt(results, i + 1)

\* The loop of mergeResults over results: allCaptures after its first n turns.
RECURSIVE collectCaptures(_, _, _)
collectCaptures(results, producers, n) ==
    IF n = 0 THEN <<>>
    ELSE multiMapAdd(collectCaptures(results, producers, n - 1),
                     producers[n], results[n].captures)

\* mergeResults(results, mapping). producers[i] is what
\* productionContext.get(results[i]) returns. The outcome records a throw
\* and the arguments mapping was called with.
mergeResults(results, producers, mapping) ==
    LET warnings == flatMap([i \in 1..Len(results) |-> results[i].warnings])
        errors == flatMap([i \in 1..Len(results) |-> errorsOf(results[i])])
        n == firstFailureAt(results, 1) - 1
        values == [i \in 1..n |-> results[i].value]
        allCaptures == collectCaptures(results, producers, n)
        crossed == crossProductCaptures(
                      [i \in 1..Len(allCaptures) |-> allCaptures[i].values])
    IN  IF crossed.threw THEN [threw |-> TRUE, called |-> <<>>]
        ELSE IF Len(values) = Len(results)
        THEN LET value == mapping[values]
                 captures == crossed.val
             IN  [threw |-> FALSE, called |-> <<values>>,
                  val |->
                    IF isFailure(value)
                    THEN failure(Arr(value.errors \o errors),
                                 Arr(value.warnings \o warnings))
                    ELSE IF Len(errors) # 0
                    THEN bind(value, [foo \in {value.value} |->
                            invalid(foo, Arr(errors), Arr(warnings),
                                    Arr(captures))])
                    ELSE bind(value, [foo \in {value.value} |->
                            valid(foo, Arr(warnings), Arr(captures))])]
        ELSE [threw |-> FALSE, called |-> <<>>,
              val |-> failure(Arr(errors), Arr(warnings))]

----------------------------------------------------------------------------
(* Values of the variables a specification does not use *)

IdleCS == pool = {} /\ lastBuild = [op |-> "none"]
IdleMR == /\ mrResults = <<>> /\ mrProducers = <<>> /\ mrMapped = failure(Omitted, Omitted)
          /\ mrOut = [done |-> FALSE] /\ acOut = [done |-> FALSE]
IdleCH == /\ stageA = <<>> /\ stageB = <<>> /\ stageC = <<>>
          /\ chInput = 0 /\ chOut = [g \in {} |-> 0]
IdleUN == /\ alts = <<>> /\ unInput = 0 /\ unPos = 0
          /\ firstInvalid = undefined /\ firstFailure = undefined
          /\ unInvoked = {} /\ unOut = [done |-> FALSE]
IdleTR == /\ productionContext = <<>> /\ cache = <<>> /\ stack = <<>>
          /\ callNo = 0 /\ allocated = 0 /\ execCount = <<>>
          /\ produced = <<>> /\ diverged = {} /\ served = <<>>
          /\ reentered = {}
          /\ foreign = {} /\ crossRead = FALSE /\ crossWrite = FALSE

----------------------------------------------------------------------------
(* CaptureSet construction: the call sites of `new CaptureSet` *)

InitCS == IdleCS /\ IdleMR /\ IdleCH /\ IdleUN /\ IdleTR

OthersCS == <<mrVars, chVars, unVars, trVars>>

Keep(built) == built \in pool \/ Cardinality(pool) < MaxPool

\* capture(): `new CaptureSet([])` followed by captures.add(key, {input, output})
CaptureAdd(key, io) ==
    LET built == add(NewCaptureSet(<<>>), key, io)
    IN  /\ Keep(built)
        /\ pool' = pool \cup {built}
        /\ lastBuild' = [op |-> "capture", children |-> <<>>, built |-> built]
        /\ UNCHANGED OthersCS

\* valid() and invalid(): the default `[new CaptureSet([])]`
DefaultSet ==
    LET built == NewCaptureSet(<<>>)
    IN  /\ Keep(built)
        /\ pool' = pool \cup {built}
        /\ lastBuild' = [op |-> "new", children |-> <<>>, built |-> built]
        /\ UNCHANGED OthersCS

\* crossProductCaptures(): `new CaptureSet([foo, bar])`
CrossPair(foo, bar) ==
    LET built == NewCaptureSet(<<foo, bar>>)
    IN  /\ Keep(built)
        /\ pool' = pool \cup {built}
        /\ lastBuild' = [op |-> "new", children |-> <<foo, bar>>, built |-> built]
        /\ UNCHANGED OthersCS

NextCS ==
    \/ \E key \in Keys, io \in Captures : CaptureAdd(key, io)
    \/ DefaultSet
    \/ \E foo \in pool, bar \in pool : CrossPair(foo, bar)

SpecCS == InitCS /\ [][NextCS]_vars

Defines(cs, key) == cs.definedKeys[key] # NoCapture

\* The captures the children of the last construction offer for key.
Offered(key) ==
    {lastBuild.children[i].definedKeys[key] :
        i \in {j \in 1..Len(lastBuild.children) :
                  Defines(lastBuild.children[j], key)}}

OverloadedInChild(key) ==
    \E i \in 1..Len(lastBuild.children) :
        key \in lastBuild.children[i].overloadedKeys

\* C2: a key that is overloaded in some child, or that the children define
\* with two or more distinct Captures, is overloaded in the built set, is not
\* in its defined mapping and get(key) is absent; and no CaptureSet has a key
\* both defined and overloaded.
C2_OverloadedNeverDefined ==
    /\ lastBuild.op = "new" =>
         \A key \in Keys :
            (OverloadedInChild(key) \/ Cardinality(Offered(key)) >= 2) =>
                /\ key \in lastBuild.built.overloadedKeys
                /\ ~Defines(lastBuild.built, key)
                /\ get(lastBuild.built, key) = NoCapture
    /\ \A cs \in pool : \A key \in Keys :
            ~(Defines(cs, key) /\ key \in cs.overloadedKeys)

\* C9: a key that no child has overloaded and that two or more children
\* define, all with the identical Capture, is mapped to that Capture in the
\* built set and is not overloaded.
C9_SameCaptureStaysDefined ==
    lastBuild.op = "new" =>
        \A key \in Keys, io \in Captures :
            ( /\ ~OverloadedInChild(key)
              /\ Offered(key) = {io}
              /\ Cardinality({i \in 1..Len(lastBuild.children) :
                                Defines(lastBuild.children[i], key)}) >= 2 ) =>
                /\ get(lastBuild.built, key) = io
                /\ key \notin lastBuild.built.overloadedKeys

----------------------------------------------------------------------------
(* mergeResults and arrayCollection applied to results built by the public *)
(* constructors                                                            *)

\* CaptureSets as capture() builds them.
Captured(key, io) == add(NewCaptureSet(<<>>), key, io)

\* Results handed to mergeResults: every kind, with and without warnings,
\* with the optional arguments given and left out.
InputResults ==
    { valid(0, Omitted, Omitted),
      valid(1, Str("w1"), Arr(<<Captured("k1", 1)>>)),
      invalid(0, Str("e1"), Omitted, Omitted),
      invalid(1, Arr(<<"e2">>), Str("w2"), Arr(<<Captured("k1", 2)>>)),
      invalid(0, Omitted, Omitted, Omitted),
      failure(Str("e3"), Omitted),
      failure(Arr(<<"e4">>), Str("w3")) }

\* Results a mapping returns.
MappedResults ==
    { valid(0, Omitted, Omitted),
      valid(1, Str("wm"), Arr(<<Captured("k2", 1)>>)),
      invalid(1, Str("em"), Omitted, Omitted),
      invalid(0, Omitted, Omitted, Arr(<<>>)),
      failure(Str("ef"), Str("wf")) }

\* What productionContext.get(result) returns: a transformer, or undefined
\* for a result no traversal has tagged.
Producers == {"t1", "t2", "undefined"}

SeqsUpTo(S, n) == UNION {[1..m -> S] : m \in 0..n}

InitMR ==
    /\ mrResults \in SeqsUpTo(InputResults, MaxResults)
    /\ mrProducers \in [1..Len(mrResults) -> Producers]
    /\ mrMapped \in MappedResults
    /\ mrOut = [done |-> FALSE]
    /\ acOut = [done |-> FALSE]
    /\ IdleCS /\ IdleCH /\ IdleUN /\ IdleTR

OthersMR == <<csVars, chVars, unVars, trVars>>

\* mergeResults(results, mapping) with a mapping that returns mrMapped
CallMergeResults ==
    /\ ~mrOut.done
    /\ mrOut' = [done |-> TRUE,
                 out |-> mergeResults(mrResults, mrProducers,
                            [vs \in {[i \in 1..Len(mrResults) |->
                                        mrResults[i].value]} |-> mrMapped])]
    /\ UNCHANGED <<mrResults, mrProducers, mrMapped, acOut>>
    /\ UNCHANGED OthersMR

\* instance(Array): valid(input) for an array, a Failure otherwise.
instanceArray(input) ==
    IF input.isArray THEN valid(input, Omitted, Omitted)
    ELSE failure(Str("Received input was not an instance of Array"), Omitted)

\* arrayCollection(transformer)(input, transform): chain(instance(Array), f)
\* where f merges elemResults[i] = transform(arr[i], transformer); every such
\* result is tagged with transformer by the traversal.
arrayCollection(input, elemResults) ==
    LET first == instanceArray(input)
        merged == mergeResults(elemResults,
                     [i \in 1..Len(elemResults) |-> "t1"],
                     [vs \in {[i \in 1..Len(elemResults) |->
                                 elemResults[i].value]} |->
                        valid(vs, Omitted, Omitted)])
    IN  IF isFailure(first) THEN Returned(first)
        ELSE IF merged.threw THEN Threw
        ELSE Returned(bind(first, [arr \in {first.value} |-> merged.val]))

\* transform(input, arrayCollection(t)) where t maps the elements of the
\* input to mrResults
CallArrayCollection(isArray) ==
    /\ ~acOut.done
    /\ acOut' = [done |-> TRUE, isArray |-> isArray,
                 out |-> arrayCollection(
                            [isArray |-> isArray,
                             elems |-> IF isArray THEN Len(mrResults) ELSE 0],
                            IF isArray THEN mrResults ELSE <<>>)]
    /\ UNCHANGED <<mrResults, mrProducers, mrMapped, mrOut>>
    /\ UNCHANGED OthersMR

NextMR ==
    \/ CallMergeResults
    \/ \E isArray \in BOOLEAN : CallArrayCollection(isArray)

SpecMR == InitMR /\ [][NextMR]_vars

\* The errors (warnings) of every result, concatenated in sequence order.
RECURSIVE AllErrors(_)
AllErrors(results) ==
    IF results = <<>> THEN <<>>
    ELSE AllErrors(SubSeq(results, 1, Len(results) - 1))
            \o errorsOf(results[Len(results)])

RECURSIVE AllWarnings(_)
AllWarnings(results) ==
    IF results = <<>> THEN <<>>
    ELSE AllWarnings(SubSeq(results, 1, Len(results) - 1))
            \o results[Len(results)].warnings

HasFailure(results) == \E i \in 1..Len(results) : isFailure(results[i])

\* The capture sets of the results tagged with producer, in sequence order.
RECURSIVE CapturesOf(_, _, _)
CapturesOf(results, producers, producer) ==
    IF results = <<>> THEN <<>>
    ELSE (IF Head(producers) = producer THEN Head(results).captures ELSE <<>>)
            \o CapturesOf(Tail(results), Tail(producers), producer)

\* The producers of the results, each once, in order of first appearance.
RECURSIVE DistinctProducers(_)
DistinctProducers(producers) ==
    IF producers = <<>> THEN <<>>
    ELSE LET init == DistinctProducers(SubSeq(producers, 1, Len(producers) - 1))
             last == producers[Len(producers)]
         IN  IF \E i \in 1..Len(init) : init[i] = last THEN init
             ELSE Append(init, last)

\* The cross product of the results' capture sets grouped by producer.
GroupedCross(results, producers) ==
    LET ps == DistinctProducers(producers)
    IN  crossProductCaptures(
            [i \in 1..Len(ps) |-> CapturesOf(results, producers, ps[i])]).val

\* C1: with a Failure anywhere in the sequence, the first position included,
\* mergeResults returns a Failure carrying the errors and the warnings of
\* every result in sequence order, and never calls the mapping.
C1_FailureShortCircuits ==
    (mrOut.done /\ HasFailure(mrResults)) =>
        /\ ~mrOut.out.threw
        /\ mrOut.out.called = <<>>
        /\ isFailure(mrOut.out.val)
        /\ mrOut.out.val.errors = AllErrors(mrResults)
        /\ mrOut.out.val.warnings = AllWarnings(mrResults)

\* The case of C8: a non-empty sequence without Failure and a mapping that
\* returns a Valid or an Invalid.
C8_Case ==
    /\ mrOut.done
    /\ mrResults # <<>>
    /\ ~HasFailure(mrResults)
    /\ ~isFailure(mrMapped)

\* C8 as stated: the result is Invalid when the accumulated errors are
\* non-empty and Valid otherwise, with mapped.value, exactly the accumulated
\* errors and warnings, and exactly the grouped cross product as captures.
C8_ExactlyAccumulated ==
    C8_Case =>
        /\ ~mrOut.out.threw
        /\ mrOut.out.val.kind =
              (IF AllErrors(mrResults) # <<>> THEN "Invalid" ELSE "Valid")
        /\ mrOut.out.val.value = mrMapped.value
        /\ errorsOf(mrOut.out.val) = AllErrors(mrResults)
        /\ mrOut.out.val.warnings = AllWarnings(mrResults)
        /\ mrOut.out.val.captures = GroupedCross(mrResults, mrProducers)

\* C8 amended: the diagnostics of mapped come first and its captures are
\* crossed in; the result is Invalid when mapped.errors followed by the
\* accumulated errors is non-empty and Valid otherwise.
C8_MappedThenAccumulated ==
    C8_Case =>
        /\ ~mrOut.out.threw
        /\ mrOut.out.called = <<[i \in 1..Len(mrResults) |-> mrResults[i].value]>>
        /\ mrOut.out.val.kind =
              (IF errorsOf(mrMapped) \o AllErrors(mrResults) # <<>>
               THEN "Invalid" ELSE "Valid")
        /\ mrOut.out.val.value = mrMapped.value
        /\ errorsOf(mrOut.out.val) = errorsOf(mrMapped) \o AllErrors(mrResults)
        /\ mrOut.out.val.warnings = mrMapped.warnings \o AllWarnings(mrResults)
        /\ mrOut.out.val.captures =
              crossProductCaptures(<<mrMapped.captures,
                                     GroupedCross(mrResults, mrProducers)>>).val

\* Witness of C8: two results of different producers, one with an error and
\* both with captures, merged under a mapping that has a warning of its own.
C8_Witness ==
    /\ C8_Case
    /\ Len(mrResults) = 2
    /\ mrProducers[1] # mrProducers[2]
    /\ AllErrors(mrResults) # <<>>
    /\ mrMapped.warnings # <<>>
    /\ Len(mrOut.out.val.captures) = 1
    /\ mrOut.out.val.captures[1].overloadedKeys = {"k1"}

\* C10: on the empty sequence mergeResults calls the mapping once with the
\* empty list and returns a Result without raising, so arrayCollection(t) on
\* an empty array returns a Valid.
C10_EmptySequenceMerges ==
    /\ (mrOut.done /\ mrResults = <<>>) =>
          /\ ~mrOut.out.threw
          /\ mrOut.out.called = << <<>> >>
    /\ (acOut.done /\ acOut.isArray /\ mrResults = <<>>) =>
          /\ ~acOut.out.threw
          /\ isValid(acOut.out.val)

----------------------------------------------------------------------------
(* chain *)

\* transform(i, t) for a transformer given as a function of its input: the
\* memoization changes which instance is returned, not what it holds.
transformApply(t, i) == t[i]

\* rest.reduce((lastResult, transformer) =>
\*     lastResult.bind(lastValue => transform(lastValue, transformer)), result)
RECURSIVE chainReduce(_, _)
chainReduce(rest, lastResult) ==
    IF rest = <<>> THEN lastResult
    ELSE chainReduce(Tail(rest),
            bind(lastResult,
                 [lastValue \in DOMAIN Head(rest) |->
                    transformApply(Head(rest), lastValue)]))

\* chain(...transformers), as the function of the input it returns.
chain(transformers) ==
    [input \in Values |->
        chainReduce(Tail(transformers),
                    transformApply(Head(transformers), input))]

\* What one stage can return; e, w and f name the stage's error, warning and
\* failure messages.
StageResults(e, w, f) ==
    { valid(0, Omitted, Omitted),
      valid(1, Str(w), Omitted),
      invalid(1, Str(e), Str(w), Omitted),
      invalid(0, Omitted, Omitted, Omitted),
      failure(Str(f), Str(w)) }

Groupings == {"a,b,c", "(a,b),c", "a,(b,c)"}

InitCH ==
    /\ stageA \in [Values -> StageResults("ea", "wa", "fa")]
    /\ stageB \in [Values -> StageResults("eb", "wb", "fb")]
    /\ stageC \in [Values -> StageResults("ec", "wc", "fc")]
    /\ chInput \in Values
    /\ chOut = [g \in {} |-> 0]
    /\ IdleCS /\ IdleMR /\ IdleUN /\ IdleTR

OthersCH == <<csVars, mrVars, unVars, trVars>>

Grouped(g) ==
    IF g = "a,b,c" THEN chain(<<stageA, stageB, stageC>>)
    ELSE IF g = "(a,b),c" THEN chain(<<chain(<<stageA, stageB>>), stageC>>)
    ELSE chain(<<stageA, chain(<<stageB, stageC>>)>>)

\* transform(chInput, t) for t one of the three groupings of the stages
RunChain(g) ==
    /\ g \notin DOMAIN chOut
    /\ chOut' = chOut @@ (g :> Grouped(g)[chInput])
    /\ UNCHANGED <<stageA, stageB, stageC, chInput>>
    /\ UNCHANGED OthersCH

NextCH == \E g \in Groupings : RunChain(g)

SpecCH == InitCH /\ [][NextCH]_vars

\* The results of the stages that run on chInput, in stage order: a stage
\* runs on the value of the stage before it unless that one failed.
StagesExecuted ==
    LET ra == stageA[chInput]
    IN  IF isFailure(ra) THEN <<ra>>
        ELSE LET rb == stageB[ra.value]
             IN  IF isFailure(rb) THEN <<ra, rb>>
                 ELSE <<ra, rb, stageC[rb.value]>>

\* C6: the three groupings of chain(a, b, c) return the same kind, errors and
\* warnings: the errors and warnings of the executed stages in stage order;
\* a failed stage makes the result a Failure without value.
C6_ChainGroupingAgrees ==
    \A g \in DOMAIN chOut :
        LET out == chOut[g]
            ran == StagesExecuted
        IN  /\ errorsOf(out) = AllErrors(ran)
            /\ out.warnings = AllWarnings(ran)
            /\ isFailure(out) <=> HasFailure(ran)
            /\ isFailure(out) => "value" \notin DOMAIN out
            /\ ~isFailure(out) => (isInvalid(out) <=> AllErrors(ran) # <<>>)
            /\ \A h \in DOMAIN chOut :
                  /\ chOut[h].kind = out.kind
                  /\ errorsOf(chOut[h]) = errorsOf(out)
                  /\ chOut[h].warnings = out.warnings

\* Witness of C6: all three groupings ran, stage b failed after stage a
\* reported an error and a warning.
C6_Witness ==
    /\ DOMAIN chOut = Groupings
    /\ Len(StagesExecuted) = 2
    /\ isFailure(StagesExecuted[2])
    /\ chOut["a,(b,c)"].errors = <<"ea", "fb">>
    /\ chOut["a,(b,c)"].warnings = <<"wa", "wb">>

----------------------------------------------------------------------------
(* union over transformers that build their result with the public         *)
(* constructors                                                            *)

\* A transformer `input => valid(input, ...)`, `input => invalid(input, ...)`
\* or `() => failure(...)`, given by its constructor and the optional
\* arguments it passes.
Transformers ==
    [fn : {"valid"}, warnings : {Omitted, Str("w1")}]
    \cup [fn : {"invalid"}, errors : {Omitted, Str("e1")}, warnings : {Omitted}]
    \cup [fn : {"failure"}, errors : {Str("e2")}, warnings : {Omitted}]

\* t(input, transform) for t in Transformers
run(t, input) ==
    IF t.fn = "valid" THEN valid(input, t.warnings, Omitted)
    ELSE IF t.fn = "invalid" THEN invalid(input, t.errors, t.warnings, Omitted)
    ELSE failure(t.errors, t.warnings)

\* A Result instance: what it holds and its reference identity. The result
\* of alternative n has identity n, the one union itself allocates has 0.
Instance(id, r) == [id |-> id, r |-> r]

\* x || y on values that are undefined or objects
or(x, y) == IF x = undefined THEN y ELSE x

InitUN ==
    /\ alts \in SeqsUpTo(Transformers, MaxAlts)
    /\ unInput \in Values
    /\ unPos = 1
    /\ firstInvalid = undefined
    /\ firstFailure = undefined
    /\ unInvoked = {}
    /\ unOut = [done |-> FALSE]
    /\ IdleCS /\ IdleMR /\ IdleCH /\ IdleTR

OthersUN == <<csVars, mrVars, chVars, trVars>>

\* The loop body with a slip: firstInvalid and firstFailure are overwritten
\* by every later Invalid and Failure.
unionBodyKeepLast(fi, ff, result) ==
    [ret |-> IF isValid(result.r) THEN result ELSE undefined,
     firstInvalid |-> IF isInvalid(result.r) THEN result ELSE fi,
     firstFailure |-> IF isFailure(result.r) THEN result ELSE ff]

\* The loop body on the result of the current alternative: the values of
\* firstInvalid and firstFailure after it, and what it returns, if it does.
unionBody(fi, ff, result) ==
    IF isValid(result.r)
    THEN [ret |-> result, firstInvalid |-> fi, firstFailure |-> ff]
    ELSE IF isInvalid(result.r)
    THEN [ret |-> undefined, firstInvalid |-> or(fi, result), firstFailure |-> ff]
    ELSE IF isFailure(result.r)
    THEN [ret |-> undefined, firstInvalid |-> fi, firstFailure |-> or(ff, result)]
    ELSE [ret |-> undefined, firstInvalid |-> fi, firstFailure |-> ff]

\* One turn of `for (const transformer of transformers)`
UnionStep ==
    /\ ~unOut.done
    /\ unPos <= Len(alts)
    /\ LET result == Instance(unPos, run(alts[unPos], unInput))
           after == unionBody(firstInvalid, firstFailure, result)
       IN  /\ unInvoked' = unInvoked \cup {unPos}
           /\ firstInvalid' = after.firstInvalid
           /\ firstFailure' = after.firstFailure
           /\ unOut' = IF after.ret = undefined THEN unOut
                       ELSE [done |-> TRUE, out |-> after.ret]
           /\ unPos' = unPos + 1
    /\ UNCHANGED <<alts, unInput>>
    /\ UNCHANGED OthersUN

\* `return firstInvalid || firstFailure || failure('The impossible happened')`
UnionReturn ==
    /\ ~unOut.done
    /\ unPos > Len(alts)
    /\ unOut' = [done |-> TRUE,
                 out |-> or(or(firstInvalid, firstFailure),
                            Instance(0, failure(Str("The impossible happened"),
                                                Omitted)))]
    /\ UNCHANGED <<alts, unInput, unPos, firstInvalid, firstFailure, unInvoked>>
    /\ UNCHANGED OthersUN

NextUN == UnionStep \/ UnionReturn

SpecUN == InitUN /\ [][NextUN]_vars

\* The result of alternative n on the input of the union.
AltResult(n) == Instance(n, run(alts[n], unInput))

\* The first alternative whose result is of the kind, 0 when there is none.
FirstOfKind(kind) ==
    IF \E n \in 1..Len(alts) : AltResult(n).r.kind = kind
    THEN CHOOSE n \in 1..Len(alts) :
            /\ AltResult(n).r.kind = kind
            /\ \A m \in 1..(n - 1) : AltResult(m).r.kind # kind
    ELSE 0

\* C5: union returns the instance of the first Valid alternative, and has
\* invoked the alternatives up to it and no other; without a Valid the first
\* Invalid; without either the first Failure; without alternatives a Failure.
C5_UnionFirstMatch ==
    /\ unInvoked = 1..(unPos - 1)
    /\ unOut.done =>
        IF FirstOfKind("Valid") # 0
        THEN /\ unOut.out = AltResult(FirstOfKind("Valid"))
             /\ unInvoked = 1..FirstOfKind("Valid")
        ELSE IF FirstOfKind("Invalid") # 0
        THEN unOut.out = AltResult(FirstOfKind("Invalid"))
        ELSE IF FirstOfKind("Failure") # 0
        THEN unOut.out = AltResult(FirstOfKind("Failure"))
        ELSE Len(alts) = 0 /\ isFailure(unOut.out.r)

\* Witness of C5: a Valid alternative after an Invalid one was returned and
\* the alternative after it was never invoked.
C5_Witness ==
    /\ unOut.done
    /\ Len(alts) = 3
    /\ FirstOfKind("Invalid") = 1
    /\ FirstOfKind("Valid") = 2
    /\ unOut.out.id = 2
    /\ 3 \notin unInvoked

\* The invariant of the Result type.
WellFormed(r) ==
    /\ r.kind \in {"Valid", "Invalid", "Failure"}
    /\ isFailure(r) => ("value" \notin DOMAIN r /\ "captures" \notin DOMAIN r)
    /\ isInvalid(r) => ("value" \in DOMAIN r /\ Len(errorsOf(r)) >= 1)
    /\ isValid(r) => errorsOf(r) = <<>>

\* C4: every Result obtained through the public interface, built by a
\* constructor or returned by union, is a Valid without errors, an Invalid
\* with a value and at least one error, or a Failure without value and
\* captures.
C4_ResultsWellFormed ==
    /\ \A n \in unInvoked : WellFormed(AltResult(n).r)
    /\ unOut.done => WellFormed(unOut.out.r)

----------------------------------------------------------------------------
(* The traversal engine: __transform__ and its inner transform, under      *)
(* transformers that request any pair and return any Result instance they  *)
(* can hold                                                                *)

TrTransformers == {"t1", "t2"}
TrInputs == {0, 1}
Pairs == TrTransformers \X TrInputs

\* Result instances are numbered in allocation order; no instance.
NoResult == 0

Instances == 1..MaxInstances

\* `new WeakMap()` at the start of __transform__, flattened over its two
\* levels: one entry per (transformer, input).
EmptyCache == [p \in Pairs |-> NoResult]

\* The lookup with a slip: it never finds an entry.
cacheLookupMiss(c, t, i) == NoResult

\* cache.get(t) followed by foo.get(i): the memoized instance, if any.
cacheLookup(c, t, i) == c[<<t, i>>]

InProgress(t, i) == \E n \in 1..Len(stack) : stack[n].t = t /\ stack[n].i = i

\* Bookkeeping of the model, not state of the program:
\*   execCount[p]  executions of the pair p started in the current call
\*   produced[p]   the instance the first finished execution of p returned
\*   diverged      the pairs for which a request got another instance
\*   served        the pair last answered from the cache, <<>> before any
\*   reentered     the pairs requested while their execution was running
\*   foreign       the instances tagged in productionContext by an earlier call
\*   crossRead, crossWrite   a foreign entry was read, was overwritten
InitTR ==
    /\ productionContext = [r \in Instances |-> "undefined"]
    /\ foreign = {}
    /\ cache = EmptyCache
    /\ stack = <<>>
    /\ callNo = 0
    /\ allocated = 0
    /\ execCount = [p \in Pairs |-> 0]
    /\ produced = [p \in Pairs |-> NoResult]
    /\ diverged = {}
    /\ served = <<>>
    /\ reentered = {}
    /\ crossRead = FALSE
    /\ crossWrite = FALSE
    /\ IdleCS /\ IdleMR /\ IdleCH /\ IdleUN

OthersTR == <<csVars, mrVars, chVars, unVars>>

\* __transform__(input, transformer): a fresh cache, then the root
\* transformer is called directly, not through the memoizing transform.
TransformCall(input, transformer) ==
    /\ stack = <<>>
    /\ callNo < MaxCalls
    /\ callNo' = callNo + 1
    /\ cache' = EmptyCache
    /\ stack' = <<[t |-> transformer, i |-> input, memo |-> FALSE]>>
    /\ execCount' = [p \in Pairs |->
                        IF p = <<transformer, input>> THEN 1 ELSE 0]
    /\ produced' = [p \in Pairs |-> NoResult]
    /\ diverged' = {}
    /\ served' = <<>>
    /\ reentered' = {}
    /\ foreign' = {r \in Instances : productionContext[r] # "undefined"}
    /\ UNCHANGED <<productionContext, allocated, crossRead, crossWrite>>
    /\ UNCHANGED OthersTR

\* transform(i, t) called by the running transformer: the memoized instance
\* on a hit, else t(i, transform) starts.
Request(i, t) ==
    /\ stack # <<>>
    /\ LET bar == cacheLookup(cache, t, i)
       IN  IF bar # NoResult
           THEN /\ served' = <<t, i>>
                /\ diverged' = IF bar # produced[<<t, i>>]
                               THEN diverged \cup {<<t, i>>}
                               ELSE diverged
                /\ UNCHANGED <<stack, execCount, reentered>>
           ELSE /\ Len(stack) < MaxDepth
                /\ stack' = Append(stack, [t |-> t, i |-> i, memo |-> TRUE])
                /\ execCount' = [execCount EXCEPT ![<<t, i>>] = @ + 1]
                /\ reentered' = IF InProgress(t, i)
                                THEN reentered \cup {<<t, i>>}
                                ELSE reentered
                /\ UNCHANGED <<diverged, served>>
    /\ UNCHANGED <<productionContext, foreign, cache, callNo, allocated,
                   produced, crossRead, crossWrite>>
    /\ UNCHANGED OthersTR

\* The running transformer returns the instance result, one it allocates or
\* one it holds. Under transform the instance is tagged with its producer
\* and memoized; the root's result is only handed to the caller.
Return(result) ==
    /\ stack # <<>>
    /\ result <= allocated + 1
    /\ LET top == stack[Len(stack)]
           pair == <<top.t, top.i>>
       IN  /\ allocated' = IF result > allocated THEN result ELSE allocated
           /\ IF top.memo
              THEN /\ productionContext' =
                          [productionContext EXCEPT ![result] = top.t]
                   /\ foreign' = foreign \ {result}
                   /\ crossWrite' = (crossWrite \/ result \in foreign)
                   /\ cache' = [cache EXCEPT ![pair] = result]
              ELSE UNCHANGED <<productionContext, foreign, crossWrite, cache>>
           /\ produced' = [produced EXCEPT
                              ![pair] = IF @ = NoResult THEN result ELSE @]
           /\ diverged' = IF produced[pair] \notin {NoResult, result}
                          THEN diverged \cup {pair}
                          ELSE diverged
           /\ stack' = SubSeq(stack, 1, Len(stack) - 1)
    /\ UNCHANGED <<callNo, execCount, served, reentered, crossRead>>
    /\ UNCHANGED OthersTR

\* mergeResults called by the running transformer on a result it holds:
\* productionContext.get(result)
MergeRead(result) ==
    /\ stack # <<>>
    /\ result <= allocated
    /\ crossRead' = (crossRead \/ result \in foreign)
    /\ UNCHANGED <<productionContext, foreign, cache, stack, callNo, allocated,
                   execCount, produced, diverged, served, reentered,
                   crossWrite>>
    /\ UNCHANGED OthersTR

NextTR ==
    \/ \E i \in TrInputs, t \in TrTransformers : TransformCall(i, t)
    \/ \E i \in TrInputs, t \in TrTransformers : Request(i, t)
    \/ \E r \in Instances : Return(r)
    \/ \E r \in Instances : MergeRead(r)

SpecTR == InitTR /\ [][NextTR]_vars

\* One top-level call on its own: the state just after __transform__ called
\* the root transformer, and the steps of that call.
InitCall ==
    /\ productionContext = [r \in Instances |-> "undefined"]
    /\ foreign = {}
    /\ cache = EmptyCache
    /\ callNo = 1
    /\ allocated = 0
    /\ \E input \in TrInputs, transformer \in TrTransformers :
          /\ stack = <<[t |-> transformer, i |-> input, memo |-> FALSE]>>
          /\ execCount = [p \in Pairs |->
                            IF p = <<transformer, input>> THEN 1 ELSE 0]
    /\ produced = [p \in Pairs |-> NoResult]
    /\ diverged = {}
    /\ served = <<>>
    /\ reentered = {}
    /\ crossRead = FALSE
    /\ crossWrite = FALSE
    /\ IdleCS /\ IdleMR /\ IdleCH /\ IdleUN

NextCall ==
    \/ \E i \in TrInputs, t \in TrTransformers : Request(i, t)
    \/ \E r \in Instances : Return(r)

SpecCall == InitCall /\ [][NextCall]_vars

\* C3 as stated: in one call every pair, the root pair included, is executed
\* at most once and every request for it returns the instance its first
\* execution produced.
C3_ExecutedOnce ==
    \A p \in Pairs :
        /\ execCount[p] <= 1
        /\ p \notin diverged

\* C3 amended: the same, for every pair that is never requested while its
\* own execution is still in progress.
C3_ExecutedOnceUnlessReentered ==
    \A p \in Pairs \ reentered :
        /\ execCount[p] <= 1
        /\ p \notin diverged

\* Witness of C3: a pair other than the root was executed once, then
\* requested again and served its first instance from the cache.
C3_Witness ==
    \E p \in Pairs \ reentered :
        /\ served = p
        /\ execCount[p] = 1
        /\ produced[p] # NoResult
        /\ cache[p] = produced[p]
        /\ stack # <<>> /\ <<stack[1].t, stack[1].i>> # p

\* C7: an entry of the cache or of the production-association table written
\* during one call is never read or overwritten during another call.
C7_TablesPrivateToCall ==
    /\ ~crossRead
    /\ ~crossWrite

====
